---- MODULE Spec2Model ----
(***************************************************************************)
(* Catalog tree of intake/catalog/base.py: the four watcher variants       *)
(* (DirectoryState, RemoteState, LocalState, CollectionState), the shared  *)
(* TTL-throttled staleness primitive, Catalog.reload / Catalog.changed,    *)
(* the breadth-first walk and the accessors built on it.                   *)
(*                                                                         *)
(* Strings are tuples of one-character strings, so that startswith,        *)
(* endswith, os.path.join and the URL sanitising are computed, not looked  *)
(* up.  An optional name is None (<<>>) or Some(s) (<<s>>).                *)
(***************************************************************************)
EXTENDS Integers, Sequences, FiniteSets, TLC

\* The clock advances at most this many ticks after construction time.
MaxTime == 2
\* Largest ttl handed to a root catalog.
MaxTTL == 2
\* Catalog objects that can be alive at once (object identities).
MaxObjects == 9

None == <<>>
Some(s) == <<s>>
\* Python truthiness of a name: None and '' are false.
Truthy(n) == n # None /\ n[1] # <<>>

-----------------------------------------------------------------------------
(* Strings                                                                 *)

startswith(s, p) == Len(s) >= Len(p) /\ SubSeq(s, 1, Len(p)) = p
endswith(s, p) == Len(s) >= Len(p) /\ SubSeq(s, Len(s) - Len(p) + 1, Len(s)) = p

RECURSIVE replace(_, _, _)
\* str.replace(old, new) for a one-character old.
replace(s, old, new) ==
    IF s = <<>> THEN <<>>
    ELSE <<IF Head(s) = old THEN new ELSE Head(s)>> \o replace(Tail(s), old, new)

RECURSIVE TakeUntil(_, _)
\* The prefix of s before the first character in stops.
TakeUntil(s, stops) ==
    IF s = <<>> \/ Head(s) \in stops THEN <<>>
    ELSE <<Head(s)>> \o TakeUntil(Tail(s), stops)

S_http == <<"h", "t", "t", "p", ":", "/", "/">>
S_https == <<"h", "t", "t", "p", "s", ":", "/", "/">>
S_yml == <<".", "y", "m", "l">>
S_yaml == <<".", "y", "a", "m", "l">>
S_info == <<"v", "1", "/", "i", "n", "f", "o">>

\* c in s
has(s, c) == \E i \in DOMAIN s : s[i] = c

\* s[k:]
From(s, k) == SubSeq(s, k + 1, Len(s))

RECURSIVE split(_, _)
\* str.split(sep) for a one-character sep.
split(s, sep) ==
    IF ~has(s, sep) THEN <<s>>
    ELSE <<TakeUntil(s, {sep})>> \o split(From(s, Len(TakeUntil(s, {sep})) + 1), sep)

RECURSIVE joined(_, _)
\* sep.join(parts)
joined(parts, sep) ==
    IF parts = <<>> THEN <<>>
    ELSE IF Len(parts) = 1 THEN parts[1]
    ELSE parts[1] \o sep \o joined(Tail(parts), sep)

HexDigits == {"0", "1", "2", "3", "4", "5", "6", "7", "8", "9",
              "a", "b", "c", "d", "e", "f", "A", "B", "C", "D", "E", "F"}

\* One group of an IPv6 address: one to four hexadecimal digits.
hextet(p) == Len(p) \in 1..4 /\ \A i \in DOMAIN p : p[i] \in HexDigits

\* ipaddress.IPv4Address(h): four octets between '.', each one to three
\* decimal digits without a leading zero, at most 255.
ipv4(h) ==
    LET octets == split(h, ".")
        digits == <<"0", "1", "2", "3", "4", "5", "6", "7", "8", "9">>
        int(c) == (CHOOSE i \in DOMAIN digits : digits[i] = c) - 1
        octet_int(p) == IF Len(p) = 1 THEN int(p[1])
                        ELSE IF Len(p) = 2 THEN 10 * int(p[1]) + int(p[2])
                        ELSE 100 * int(p[1]) + 10 * int(p[2]) + int(p[3])
        parse_octet(p) ==
            /\ p # <<>>
            /\ \A i \in DOMAIN p : \E d \in DOMAIN digits : digits[d] = p[i]
            /\ Len(p) <= 3
            /\ p # <<"0">> => p[1] # "0"
            /\ octet_int(p) <= 255
    IN Len(octets) = 4 /\ \A i \in DOMAIN octets : parse_octet(octets[i])

\* The parts of an IPv6 address between ':', its IPv4 suffix already turned
\* into two groups: at most nine parts; at most one '::'; a leading or
\* trailing ':' only as part of '::'; every other part a group of
\* hexadecimal digits.
ipv6_parts(parts) ==
    LET n == Len(parts)
        skips == {i \in 2..(n - 1) : parts[i] = <<>>}
        k == CHOOSE i \in skips : TRUE
        parts_hi == IF parts[1] = <<>> THEN k - 2 ELSE k - 1
        parts_lo == IF parts[n] = <<>> THEN n - k - 1 ELSE n - k
    IN /\ n <= 9
       /\ Cardinality(skips) <= 1
       /\ IF skips # {}
          THEN /\ parts[1] = <<>> => parts_hi = 0
               /\ parts[n] = <<>> => parts_lo = 0
               /\ 8 - (parts_hi + parts_lo) >= 1
               /\ \A i \in 1..parts_hi : hextet(parts[i])
               /\ \A i \in (n - parts_lo + 1)..n : hextet(parts[i])
          ELSE n = 8 /\ \A i \in 1..n : hextet(parts[i])

\* ipaddress.ip_address(h) is an IPv6Address: a scope id after '%'; at least
\* three parts between ':'; a last part that holds a '.' is an IPv4 address
\* and stands for two groups ('%x' of its halves).  (An IPv4 address is no
\* IPv6Address: it has no ':'.)
ipv6(h) ==
    LET addr == TakeUntil(h, {"%"})
        parts == split(addr, ":")
    IN /\ Len(addr) < Len(h) => (From(h, Len(addr) + 1) # <<>> /\ ~has(From(h, Len(addr) + 1), "%"))
       /\ Len(parts) >= 3
       /\ IF has(parts[Len(parts)], ".")
          THEN /\ ipv4(parts[Len(parts)])
               /\ ipv6_parts(SubSeq(parts, 1, Len(parts) - 1) \o <<<<"0">>, <<"0">>>>)
          ELSE ipv6_parts(parts)

\* re.match(r"\Av[a-fA-F0-9]+\..+\Z", h)
ipvfuture(h) ==
    \E k \in 2..(Len(h) - 2) :
        /\ h[1] = "v"
        /\ \A i \in 2..k : h[i] \in HexDigits
        /\ h[k + 1] = "."

\* urlsplit's checks of a netloc: a bracket without its partner is an
\* "Invalid IPv6 URL", a bracketed host is an IPvFuture or IPv6 address, and
\* no character becomes '/', '?', '#', '@' or ':' under NFKC normalisation
\* (_checknetloc).  A character beyond ASCII is written as its code point:
\* "U+FF0F" is the one-character string '／'.
netloc_ok(n) ==
    LET host == TakeUntil(From(n, Len(TakeUntil(n, {"["})) + 1), {"]"})
        nfkc == {"U+2047", "U+2048", "U+2049", "U+2100", "U+2101", "U+2105", "U+2106",
                 "U+2A74", "U+FE13", "U+FE16", "U+FE55", "U+FE56", "U+FE5F", "U+FE6B",
                 "U+FF03", "U+FF0F", "U+FF1A", "U+FF1F", "U+FF20"}
    IN /\ has(n, "[") = has(n, "]")
       /\ has(n, "[") => IF startswith(host, <<"v">>) THEN ipvfuture(host) ELSE ipv6(host)
       /\ \A i \in DOMAIN n : n[i] \notin nfkc

\* url.find(';', url.rfind('/')): the parameters of the last segment of the
\* path are cut off (_splitparams).
splitparams(path) ==
    LET segs == split(path, "/")
        last == segs[Len(segs)]
    IN SubSeq(path, 1, Len(path) - Len(last)) \o TakeUntil(last, {";"})

\* urlparse(url) for a URL that starts with http:// or https://: the tabs,
\* carriage returns and line feeds are removed first; the netloc ends at the
\* next '/', '?' or '#'; the path ends at the next '#' or '?' and loses the
\* parameters of its last segment.  ok is false when urlsplit raises
\* ValueError.
urlparse(url) ==
    LET u == SelectSeq(url, LAMBDA c : c \notin {"\t", "\r", "\n"})
        scheme == TakeUntil(u, {":"})
        rest == From(u, Len(scheme) + 1)
        net == IF startswith(rest, <<"/", "/">>)
               THEN TakeUntil(From(rest, 2), {"/", "?", "#"}) ELSE <<>>
        tail == IF startswith(rest, <<"/", "/">>) THEN From(rest, 2 + Len(net)) ELSE rest
    IN [ok |-> netloc_ok(net), scheme |-> scheme, netloc |-> net,
        path |-> splitparams(TakeUntil(tail, {"#", "?"}))]

\* urlparse(url).netloc
netloc(url) == urlparse(url).netloc

RECURSIVE resolve(_, _)
\* The loop of urljoin that resolves '.' and '..' in the segments: resolved
\* is the path so far.
resolve(segments, resolved) ==
    IF segments = <<>> THEN resolved
    ELSE IF Head(segments) = <<".", ".">>
    THEN resolve(Tail(segments),
                 IF resolved = <<>> THEN <<>> ELSE SubSeq(resolved, 1, Len(resolved) - 1))
    ELSE IF Head(segments) = <<".">> THEN resolve(Tail(segments), resolved)
    ELSE resolve(Tail(segments), Append(resolved, Head(segments)))

\* The path of urljoin(base, rel): the directory of the base's path, then rel.
joined_path(bpath, rel) ==
    LET base_parts == split(bpath, "/")
        dir == IF base_parts[Len(base_parts)] # <<>>
               THEN SubSeq(base_parts, 1, Len(base_parts) - 1) ELSE base_parts
        segments == dir \o split(rel, "/")
        \* segments[1:-1] = filter(None, segments[1:-1])
        unslashed == IF Len(segments) < 3 THEN segments
                     ELSE <<Head(segments)>>
                          \o SelectSeq(SubSeq(segments, 2, Len(segments) - 1),
                                       LAMBDA x : x # <<>>)
                          \o <<segments[Len(segments)]>>
        path == joined(resolve(unslashed, <<>>), <<"/">>)
    IN IF startswith(path, <<"/">>) THEN path ELSE <<"/">> \o path

\* urljoin(base, rel) for an http(s) base that parses and a relative path rel
\* that is not empty, has no query, fragment or parameters and does not end
\* in '.' or '..': scheme and netloc of the base, rel resolved against the
\* base's path.
urljoin(base, rel) ==
    urlparse(base).scheme \o <<":", "/", "/">> \o urlparse(base).netloc
        \o joined_path(urlparse(base).path, rel)

\* os.path.join(a, b) for a relative b.
join(a, b) == IF endswith(a, <<"/">>) THEN a \o b ELSE a \o <<"/">> \o b

-----------------------------------------------------------------------------
(* The observed world: one directory with up to three files, one server.   *)

URL == S_http \o <<"h", ".", "o", ":", "8">>
DIR == <<"/", "d">>
F_a == <<"a">> \o S_yml
F_b == <<"b">> \o S_yaml
F_c == <<"c", ".", "t", "x", "t">>
\* The names a file of the directory can have.
Names == {F_a, F_b, F_c}

\* What CatalogConfig(path) yields for a file's content: a name, entries by
\* name, plugins; or a parse failure.
E1 == <<"e", "1">>
E2 == <<"e", "2">>
Entry(src, n) == [src |-> src, name |-> n]
CfgX == [ok |-> TRUE, name |-> Some(<<"x">>),
         entries |-> [n \in {E1} |-> Entry(<<"x">>, n)], plugins |-> <<"p">>]
CfgY == [ok |-> TRUE, name |-> Some(<<"y">>),
         entries |-> [n \in {E1, E2} |-> Entry(<<"y">>, n)], plugins |-> <<>>]
CfgEmpty == [ok |-> TRUE, name |-> Some(<<"y">>),
             entries |-> [n \in {} |-> Entry(<<"y">>, n)], plugins |-> <<>>]
CfgBad == [ok |-> FALSE, name |-> None,
           entries |-> [n \in {} |-> Entry(<<>>, n)], plugins |-> <<>>]

\* The info payload of the server: the names of its sources.
RemoteSources == {<<"s">>, E1}

VARIABLES
    now,      \* time.time()
    files,    \* path -> [mtime, cfg] for each file that exists in DIR
    dmtime,   \* modification time of DIR
    status,   \* status code the server answers the info request with
    dorder,   \* the names in the order the file system lists them in
    nodes,    \* object identity -> Catalog object (with its State)
    root,     \* identity of the catalog the caller built, 0 before
    ret,      \* the call being returned to the caller and its outcome
    prev,     \* node and time of the latest changed() call, no other call since
    wk        \* a walk generator being consumed step by step

env == <<now, files, dmtime, status, dorder>>
vars == <<now, files, dmtime, status, dorder, nodes, root, ret, prev, wk>>

Ids == 1..MaxObjects

-----------------------------------------------------------------------------
(* Results of calls.  An error is a tuple whose first element is its type; *)
(* <<>> is "no error".                                                     *)

NoErr == <<>>
Ok(nds) == [ok |-> TRUE, err |-> NoErr, nds |-> nds]
Fail(e, nds) == [ok |-> FALSE, err |-> e, nds |-> nds]

\* The identity of a newly allocated object: the lowest one not alive.
NewId(nds) == CHOOSE i \in Ids : i \notin DOMAIN nds /\ \A j \in 1..(i - 1) : j \in DOMAIN nds

-----------------------------------------------------------------------------
(* State and its four variants                                             *)

\* utils.clamp: the ttl is floored at 0.
clamp(ttl) == IF ttl >= 0 THEN ttl ELSE 0

\* ttl = kwargs.get('ttl', 1)
DefaultTTL == 1

\* State.__init__ (and the subclasses' __init__ but for CollectionState's
\* catalogs), together with the fields Catalog.reload will fill.
State_init(kind, name, observable, ttl) ==
    [kind |-> kind, sname |-> name, observable |-> observable, ttl |-> clamp(ttl),
     mod |-> 0, last |-> 0, catalogs |-> <<>>,
     name |-> None, children |-> <<>>, entries |-> <<>>, plugins |-> <<>>]

\* The directories that exist: DIR, one whose path ends in .yml and one
\* whose relative path reads as a URL.
DIR_yml == <<"/", "e">> \o S_yml
DIR_http == S_http \o <<"/", "e">>
Dirs == {DIR, DIR_yml, DIR_http}

\* os.path.isdir
isdir(p) == p \in Dirs

\* os.listdir(p): the names of the files in p, in the order of the file
\* system, which is arbitrary.
listdir(p) == SelectSeq(dorder, LAMBDA f : join(p, f) \in DOMAIN files)

\* A classification that looks at the suffix before it looks for a directory.
create_state_suffix_first(observable) ==
    IF observable.list THEN "Collection"
    ELSE IF startswith(observable.v, S_http) \/ startswith(observable.v, S_https) THEN "Remote"
    ELSE IF endswith(observable.v, S_yml) \/ endswith(observable.v, S_yaml) THEN "Local"
    ELSE IF isdir(observable.v) THEN "Directory"
    ELSE "TypeError"

\* The variant create_state picks, or "TypeError".
create_state(observable) ==
    IF observable.list THEN "Collection"
    ELSE IF startswith(observable.v, S_http) \/ startswith(observable.v, S_https) THEN "Remote"
    ELSE IF isdir(observable.v) THEN "Directory"
    ELSE IF endswith(observable.v, S_yml) \/ endswith(observable.v, S_yaml) THEN "Local"
    ELSE "TypeError"

\* {catalog.name: catalog for catalog in catalogs}: a later catalog of the
\* same name replaces an earlier one.
ChildrenOf(nds, catalogs) ==
    [n \in {nds[catalogs[i]].name : i \in DOMAIN catalogs} |->
        catalogs[CHOOSE i \in DOMAIN catalogs :
                    /\ nds[catalogs[i]].name = n
                    /\ \A j \in DOMAIN catalogs : nds[catalogs[j]].name = n => j <= i]]

Snapshot(name, children, entries, plugins) ==
    [name |-> name, children |-> children, entries |-> entries, plugins |-> plugins]

\* The outcome of refresh(): the tuple it returns, or the error it raises,
\* and the objects as it leaves them.
Refreshed(nds, snap) == [ok |-> TRUE, err |-> NoErr, nds |-> nds, snap |-> snap]
RefreshFailed(e, nds) == [ok |-> FALSE, err |-> e, nds |-> nds, snap |-> <<>>]

\* The outcome of Catalog(...): the new object, or the error raised (and then
\* no object: what was allocated meanwhile is unreachable).
Built(nds, id) == [ok |-> TRUE, err |-> NoErr, nds |-> nds, id |-> id]
BuildFailed(e, nds) == [ok |-> FALSE, err |-> e, nds |-> nds, id |-> 0]

\* The outcome of a list of Catalog(...) calls.
BuiltAll(nds, ids) == [ok |-> TRUE, err |-> NoErr, nds |-> nds, ids |-> ids]
BuildAllFailed(e, nds) == [ok |-> FALSE, err |-> e, nds |-> nds, ids |-> <<>>]

RECURSIVE Catalog_init(_, _, _, _)
RECURSIVE Catalog_reload(_, _)
RECURSIVE NewCatalogs(_, _, _, _)
RECURSIVE ReloadEach(_, _, _)

\* [Catalog(uri) for uri in uris]: ids are the catalogs built so far; the
\* first failure ends the construction and leaves nds0, the objects there
\* were before it.
NewCatalogsNext(nds0, uris, ids, c) ==
    IF c.ok THEN NewCatalogs(nds0, c.nds, Tail(uris), Append(ids, c.id))
    ELSE BuildAllFailed(c.err, nds0)

NewCatalogs(nds0, nds, uris, ids) ==
    IF uris = <<>> THEN BuiltAll(nds, ids)
    ELSE NewCatalogsNext(nds0, uris, ids, Catalog_init(nds, <<Head(uris)>>, None, DefaultTTL))

\* for catalog in self.catalogs: catalog.reload()
ReloadEachNext(catalogs, i, r) ==
    IF r.ok THEN ReloadEach(r.nds, catalogs, i + 1) ELSE Fail(r.err, r.nds)

ReloadEach(nds, catalogs, i) ==
    IF i > Len(catalogs) THEN Ok(nds)
    ELSE ReloadEachNext(catalogs, i, Catalog_reload(nds, catalogs[i]))

\* The files DirectoryState.refresh selects, as paths.
Selected(dir) ==
    LET names == SelectSeq(listdir(dir), LAMBDA f : endswith(f, S_yml) \/ endswith(f, S_yaml))
    IN [i \in DOMAIN names |-> join(dir, names[i])]

\* self.catalogs = catalogs and the returned tuple, once the catalogs are built.
DirectoryState_refreshed(nds, id, built) ==
    IF ~built.ok THEN RefreshFailed(built.err, nds)
    ELSE Refreshed([built.nds EXCEPT ![id].catalogs = built.ids],
                   Snapshot(nds[id].sname, ChildrenOf(built.nds, built.ids), <<>>, <<>>))

\* The catalogs ids, reloaded in place, as if they had just been built.
Reloaded(ids, r) == IF r.ok THEN BuiltAll(r.nds, ids) ELSE BuildAllFailed(r.err, r.nds)

\* A directory that keeps its catalogs while the same files are listed, and
\* reloads them in place.
DirectoryState_refresh_in_place(nds, id) ==
    IF /\ nds[id].catalogs # <<>>
       /\ [k \in DOMAIN nds[id].catalogs |-> nds[nds[id].catalogs[k]].observable]
             = Selected(nds[id].observable)
    THEN DirectoryState_refreshed(nds, id,
             Reloaded(nds[id].catalogs, ReloadEach(nds, nds[id].catalogs, 1)))
    ELSE DirectoryState_refreshed(nds, id,
             NewCatalogs(nds, nds, Selected(nds[id].observable), <<>>))

DirectoryState_refresh(nds, id) ==
    DirectoryState_refreshed(nds, id, NewCatalogs(nds, nds, Selected(nds[id].observable), <<>>))

RemoteState_refresh(nds, id) ==
    LET self == nds[id]
        base_url == self.observable \o <<"/">>
        info_url == urljoin(base_url, S_info)
        source_url == urljoin(base_url, <<"v", "1", "/", "s", "o", "u", "r", "c", "e">>)
        name == replace(replace(netloc(self.observable), ".", "_"), ":", "_")
    IN IF status # 200
       THEN RefreshFailed(<<"Exception", info_url, status>>, nds)
       ELSE Refreshed(nds, Snapshot(Some(name), <<>>,
                                    [s \in RemoteSources |-> Entry(source_url, s)], <<>>))

\* CatalogConfig(path): the parsed content of the file, or the error raised.
CatalogConfig(path) ==
    IF path \notin DOMAIN files THEN [ok |-> FALSE, err |-> <<"IOError", path>>]
    ELSE IF ~files[path].cfg.ok THEN [ok |-> FALSE, err |-> <<"ParseError", path>>]
    ELSE files[path].cfg @@ [err |-> NoErr]

LocalState_refresh(nds, id) ==
    LET cfg == CatalogConfig(nds[id].observable)
    IN IF ~cfg.ok THEN RefreshFailed(cfg.err, nds)
       ELSE Refreshed(nds, Snapshot(cfg.name, <<>>, cfg.entries, cfg.plugins))

\* The returned tuple, once every member was reloaded.
CollectionState_refreshed(id, r) ==
    IF ~r.ok THEN RefreshFailed(r.err, r.nds)
    ELSE Refreshed(r.nds, Snapshot(None, ChildrenOf(r.nds, r.nds[id].catalogs), <<>>, <<>>))

CollectionState_refresh(nds, id) ==
    CollectionState_refreshed(id, ReloadEach(nds, nds[id].catalogs, 1))

\* self._state.refresh()
State_refresh(nds, id) ==
    CASE nds[id].kind = "Directory" -> DirectoryState_refresh(nds, id)
      [] nds[id].kind = "Remote" -> RemoteState_refresh(nds, id)
      [] nds[id].kind = "Local" -> LocalState_refresh(nds, id)
      [] nds[id].kind = "Collection" -> CollectionState_refresh(nds, id)

\* A reload that empties the cache before it asks the state to refresh.
Commit_cleared_first(id, r) ==
    IF ~r.ok THEN Fail(r.err, [r.nds EXCEPT ![id].children = <<>>, ![id].entries = <<>>])
    ELSE Ok([r.nds EXCEPT ![id].name = r.snap.name,
                          ![id].children = r.snap.children,
                          ![id].entries = r.snap.entries,
                          ![id].plugins = r.snap.plugins])

\* self.name, self._children, self._entries, self._plugins = r: the four
\* fields are assigned together; when refresh() raised, nothing is assigned.
Commit(id, r) ==
    IF ~r.ok THEN Fail(r.err, r.nds)
    ELSE Ok([r.nds EXCEPT ![id].name = r.snap.name,
                          ![id].children = r.snap.children,
                          ![id].entries = r.snap.entries,
                          ![id].plugins = r.snap.plugins])

\* Catalog.reload
Catalog_reload(nds, id) == Commit(id, State_refresh(nds, id))

\* args[0] if len(args) == 1 else args
Observable(args) ==
    IF Len(args) = 1 THEN [list |-> FALSE, v |-> args[1]] ELSE [list |-> TRUE, v |-> args]

\* self.reload() at the end of __init__
Catalog_init_reload(nds0, id, r) ==
    IF r.ok THEN Built(r.nds, id) ELSE BuildFailed(r.err, nds0)

\* The State object is there (for a collection: with its member catalogs).
Catalog_init_state(nds0, id, built) ==
    IF ~built.ok THEN BuildFailed(built.err, nds0)
    ELSE Catalog_init_reload(nds0, id,
             Catalog_reload([built.nds EXCEPT ![id].catalogs = built.ids], id))

\* RemoteState.__init__ joins the info and source URLs: urljoin raises
\* ValueError for a base that does not parse.
RemoteState_init(observable) == urlparse(observable \o <<"/">>).ok

\* self._state = create_state(name, args, ttl)
Catalog_init_create(nds0, nds, id, kind, observable) ==
    IF kind = "TypeError" THEN BuildFailed(<<"TypeError">>, nds0)
    ELSE IF kind = "Remote" /\ ~RemoteState_init(observable)
    THEN BuildFailed(<<"ValueError">>, nds0)
    ELSE Catalog_init_state(nds0, id,
             IF kind = "Collection" THEN NewCatalogs(nds, nds, observable, <<>>)
             ELSE BuiltAll(nds, <<>>))

\* Catalog.__init__ on the flattened args.
Catalog_init(nds, args, name, ttl) ==
    Catalog_init_create(nds,
        nds @@ (NewId(nds) :> State_init(create_state(Observable(args)), name,
                                         Observable(args).v, ttl)),
        NewId(nds), create_state(Observable(args)), Observable(args).v)

-----------------------------------------------------------------------------
(* Staleness                                                               *)

\* A primitive that records an accepted probe only when the value is newer.
update_modification_time_when_newer(self, value) ==
    IF now - self.last > self.ttl /\ value > self.mod
    THEN [st |-> [self EXCEPT !.mod = value, !.last = now], updated |-> TRUE]
    ELSE [st |-> self, updated |-> FALSE]

\* A primitive whose window is closed on the left: it accepts a probe made
\* exactly ttl after the last accepted one.
update_modification_time_at_ttl(self, value) ==
    IF now - self.last >= self.ttl
    THEN [st |-> [self EXCEPT !.mod = value, !.last = now], updated |-> value > self.mod]
    ELSE [st |-> self, updated |-> FALSE]

\* A primitive for which a value that is not older counts as a change.
update_modification_time_not_older(self, value) ==
    IF now - self.last > self.ttl
    THEN [st |-> [self EXCEPT !.mod = value, !.last = now], updated |-> value >= self.mod]
    ELSE [st |-> self, updated |-> FALSE]

\* State.update_modification_time(value), called at time now.
update_modification_time(self, value) ==
    IF now - self.last > self.ttl
    THEN [st |-> [self EXCEPT !.mod = value, !.last = now], updated |-> value > self.mod]
    ELSE [st |-> self, updated |-> FALSE]

\* os.path.getmtime
getmtime(p) ==
    IF p = DIR THEN [ok |-> TRUE, v |-> dmtime]
    ELSE IF isdir(p) THEN [ok |-> TRUE, v |-> 0]
    ELSE IF p \in DOMAIN files THEN [ok |-> TRUE, v |-> files[p].mtime]
    ELSE [ok |-> FALSE, v |-> 0]

\* The outcome of a changed() call: its value, the objects as it leaves them,
\* the catalogs whose observable it stat'ed and the catalogs whose
\* bookkeeping it updated (its accepted probes).
Probe(ok, err, nds, value, stats, accepted) ==
    [ok |-> ok, err |-> err, nds |-> nds, value |-> value, stats |-> stats,
     accepted |-> accepted]

\* The outcome of one update_modification_time call u on catalog id.
Probed(nds, id, u, stats) ==
    Probe(TRUE, NoErr, [nds EXCEPT ![id] = u.st], u.updated, stats,
          IF u.st # nds[id] THEN {id} ELSE {})

RECURSIVE Catalog_changed(_, _)
RECURSIVE ChangedEach(_, _, _)

\* [catalog.changed for catalog in catalogs], from the i-th on; acc is the
\* outcome so far, its value the OR of the elements.
ChangedEachNext(catalogs, i, acc, c) ==
    IF c.ok
    THEN ChangedEach(catalogs, i + 1,
                     Probe(TRUE, NoErr, c.nds, acc.value \/ c.value,
                           acc.stats \cup c.stats, acc.accepted \cup c.accepted))
    ELSE Probe(FALSE, c.err, c.nds, FALSE, acc.stats \cup c.stats,
               acc.accepted \cup c.accepted)

ChangedEach(catalogs, i, acc) ==
    IF i > Len(catalogs) THEN acc
    ELSE ChangedEachNext(catalogs, i, acc, Catalog_changed(acc.nds, catalogs[i]))

\* A changed that probes with the time of the last probe instead of the clock.
State_changed_last_probe(nds, id) ==
    Probed(nds, id, update_modification_time(nds[id], nds[id].last), {})

\* State.changed: the base behaviour, the one RemoteState inherits.
State_changed(nds, id) ==
    Probed(nds, id, update_modification_time(nds[id], now), {})

LocalState_changed(nds, id) ==
    IF ~getmtime(nds[id].observable).ok
    THEN Probe(FALSE, <<"OSError", nds[id].observable>>, nds, FALSE, {id}, {})
    ELSE Probed(nds, id,
                update_modification_time(nds[id], getmtime(nds[id].observable).v), {id})

DirectoryState_changed(nds, id) ==
    ChangedEach(nds[id].catalogs, 1,
                Probed(nds, id,
                       update_modification_time(nds[id], getmtime(nds[id].observable).v),
                       {id}))

\* A collection that, like a directory, ORs a probe of its own into the result.
CollectionState_changed_with_own(nds, id) ==
    ChangedEach(nds[id].catalogs, 1,
                Probed(nds, id, update_modification_time(nds[id], now), {}))

\* any([catalog.changed for catalog in self.catalogs])
CollectionState_changed(nds, id) ==
    ChangedEach(nds[id].catalogs, 1, Probe(TRUE, NoErr, nds, FALSE, {}, {}))

\* Catalog.changed: self._state.changed()
Catalog_changed(nds, id) ==
    CASE nds[id].kind = "Directory" -> DirectoryState_changed(nds, id)
      [] nds[id].kind = "Remote" -> State_changed(nds, id)
      [] nds[id].kind = "Local" -> LocalState_changed(nds, id)
      [] nds[id].kind = "Collection" -> CollectionState_changed(nds, id)

\* The validation found the catalog changed: self.reload()
Revalidated(c, r) == [c EXCEPT !.ok = r.ok, !.err = r.err, !.nds = r.nds] @@ [reloaded |-> r.ok]

\* if self.changed: self.reload()
Validated(id, c) ==
    IF ~c.ok THEN [c EXCEPT !.value = FALSE] @@ [reloaded |-> FALSE]
    ELSE IF ~c.value THEN c @@ [reloaded |-> FALSE]
    ELSE Revalidated(c, Catalog_reload(c.nds, id))

\* utils.reload_on_change, the wrapper of walk, get_entry and plugins: the
\* validation that runs before the wrapped body.
reload_on_change(nds, id) == Validated(id, Catalog_changed(nds, id))

-----------------------------------------------------------------------------
(* Traversal and the accessors built on it                                 *)

Range(f) == {f[x] : x \in DOMAIN f}

\* The orders in which a set (or the keys of a dict) can be iterated.
Perms(S) == {p \in [1..Cardinality(S) -> S] : \A x \in S : \E i \in DOMAIN p : p[i] = x}

\* The frame of a walk generator between two passes of its while loop or
\* inside its for loop: catalog is the catalog popped last (0 before the
\* first pass), sources the keys its for loop has still to come to.
Frame(visited, queue, catalog, sources) ==
    [visited |-> visited, queue |-> queue, catalog |-> catalog, sources |-> sources]

\* What a pass of the while loop leaves: the frame, and the catalog it
\* yields (with leaves=False).
Pass(visited, queue, catalog, sources, yields) ==
    [w |-> Frame(visited, queue, catalog, sources), yields |-> yields]

\* walk_step without the "if catalog not in visited" test.
walk_step_unchecked(nds, w, leaves) ==
    LET catalog == Head(w.queue)
        visited == w.visited \cup {catalog}
    IN {Pass(visited, Tail(w.queue) \o q, catalog, p,
             IF leaves THEN <<>> ELSE <<catalog>>) :
           q \in Perms(Range(nds[catalog].children) \ visited),
           p \in IF leaves THEN Perms(DOMAIN nds[catalog].entries) ELSE {<<>>}}

\* One pass of the while loop of walk from frame w, up to the for loop over
\* the entries (leaves=True) or to the yield of the catalog (leaves=False):
\* every outcome it can have.  The set of children is queued in any order,
\* and the for loop starts on the keys the entries have now.
walk_step(nds, w, leaves) ==
    LET catalog == Head(w.queue)
        rest == Tail(w.queue)
        visited == w.visited \cup {catalog}
    IN IF catalog \in w.visited
       THEN {Pass(w.visited, rest, catalog, <<>>, <<>>)}
       ELSE {Pass(visited, rest \o q, catalog, p,
                  IF leaves THEN <<>> ELSE <<catalog>>) :
                q \in Perms(Range(nds[catalog].children) \ visited),
                p \in IF leaves THEN Perms(DOMAIN nds[catalog].entries) ELSE {<<>>}}

\* How next(g) ends: the generator yields an item and is suspended in frame
\* w, or it is exhausted (StopIteration), or its body raises.
Resumption(kind, items, e, w) == [kind |-> kind, item |-> items, err |-> e, w |-> w]

RECURSIVE walk_next(_, _, _)

\* After a pass: its yield, or the next pass.
walk_resume(nds, s, leaves) ==
    IF s.yields # <<>> THEN {Resumption("yield", <<s.yields[1]>>, NoErr, s.w)} ELSE walk_next(nds, s.w, leaves)

\* next(g) on a generator suspended in frame w: the body runs to its next
\* yield.  Inside the for loop the next key is one of the dict the loop
\* started on, the entry is read from the entries the catalog has now
\* (catalog._entries[source]: KeyError when a reload took the key away).
walk_next(nds, w, leaves) ==
    IF w.sources # <<>>
    THEN IF Head(w.sources) \in DOMAIN nds[w.catalog].entries
         THEN {Resumption("yield",
                          <<<<w.catalog, Head(w.sources),
                              nds[w.catalog].entries[Head(w.sources)]>>>>, NoErr,
                          Frame(w.visited, w.queue, w.catalog, Tail(w.sources)))}
         ELSE {Resumption("raise", <<>>, <<"KeyError", Head(w.sources)>>, w)}
    ELSE IF w.queue = <<>> THEN {Resumption("stop", <<>>, NoErr, w)}
    ELSE UNION {walk_resume(nds, s, leaves) : s \in walk_step(nds, w, leaves)}

RECURSIVE walk_loop(_, _, _)

\* The rest of a run after outcome o of a next.
walk_rest(nds, o, leaves) ==
    IF o.kind = "yield" THEN {o.item \o r : r \in walk_loop(nds, o.w, leaves)} ELSE {<<>>}

\* The sequences a generator in frame w yields when it is consumed to its
\* end with nothing done between two of its steps.
walk_loop(nds, w, leaves) == UNION {walk_rest(nds, o, leaves) : o \in walk_next(nds, w, leaves)}

\* The body of Catalog.walk, consumed at once as get_catalogs, get_entries
\* and get_catalog do: visited, queue = set(), [self]
walk(nds, id, leaves) == walk_loop(nds, Frame({}, <<id>>, 0, <<>>), leaves)

Value(v) == [ok |-> TRUE, err |-> NoErr, value |-> v]
Raise(e) == [ok |-> FALSE, err |-> e, value |-> <<>>]

\* zip(*run) unpacked into three names raises ValueError on an empty run.
get_catalogs(nds, run) ==
    IF run = <<>> THEN Raise(<<"ValueError">>)
    ELSE Value({nm \in {nds[run[i][1]].name : i \in DOMAIN run} : Truthy(nm)})

get_entries(nds, run) ==
    IF run = <<>> THEN Raise(<<"ValueError">>)
    ELSE Value({run[i][2] : i \in DOMAIN run})

\* A search that keeps looking after a match and returns the last one.
get_catalog_last(nds, run, name) ==
    LET hits == {i \in DOMAIN run : nds[run[i]].name = name}
    IN IF hits = {} THEN Raise(<<"KeyError", name>>)
       ELSE Value(run[CHOOSE i \in hits : \A j \in hits : i >= j])

\* run is walk(leaves=False): the first catalog of that name, or KeyError.
get_catalog(nds, run, name) ==
    LET hits == {i \in DOMAIN run : nds[run[i]].name = name}
    IN IF hits = {} THEN Raise(<<"KeyError", name>>)
       ELSE Value(run[CHOOSE i \in hits : \A j \in hits : i <= j])

\* A lookup that falls back on the entries of the children.
get_entry_or_childs(nds, id, name) ==
    LET holders == {c \in Range(nds[id].children) : name \in DOMAIN nds[c].entries}
    IN IF name \in DOMAIN nds[id].entries THEN Value(nds[id].entries[name])
       ELSE IF holders # {} THEN Value(nds[CHOOSE c \in holders : TRUE].entries[name])
       ELSE Raise(<<"KeyError", name>>)

\* self._entries[name]
get_entry(nds, id, name) ==
    IF name \in DOMAIN nds[id].entries THEN Value(nds[id].entries[name])
    ELSE Raise(<<"KeyError", name>>)

\* The property read without the wrapper: what the catalog cached before
\* the call.
plugins_unvalidated(nds, id) == Value(nodes[id].plugins)

\* return self._plugins
plugins(nds, id) == Value(nds[id].plugins)

-----------------------------------------------------------------------------
(* The caller                                                              *)

RECURSIVE Reach(_, _, _)
\* The objects the caller's catalog keeps alive.
Reach(nds, todo, seen) ==
    IF todo = {} THEN seen
    ELSE LET i == CHOOSE x \in todo : TRUE
             next == (Range(nds[i].catalogs) \cup Range(nds[i].children)) \ (seen \cup {i})
         IN Reach(nds, (todo \ {i}) \cup next, seen \cup {i})

\* Objects nothing refers to any more are collected: what stays is what the
\* objects of roots keep alive (0 is no object).
Collect(nds, roots) == [i \in Reach(nds, roots \ {0}, {}) |-> nds[i]]

RECURSIVE flatten(_)
\* utils.flatten over items [list, v]: a string, or a list of items.
flatten(items) ==
    IF items = <<>> THEN <<>>
    ELSE (IF Head(items).list THEN flatten(Head(items).v) ELSE <<Head(items).v>>)
         \o flatten(Tail(items))

Str(s) == [list |-> FALSE, v |-> s]
Lst(l) == [list |-> TRUE, v |-> l]

\* The clock at construction; files were written before, at FileBirth.
FileBirth == 1
Epoch == FileBirth + MaxTTL + 1

TTLs == 1..MaxTTL

\* What the caller passes to Catalog(...).
Inputs ==
    {[args |-> <<Str(join(DIR, F_a))>>, name |-> None, ttl |-> t] : t \in TTLs}
    \cup {[args |-> <<Str(URL)>>, name |-> None, ttl |-> t] : t \in TTLs}
    \cup {[args |-> <<Str(DIR)>>, name |-> Some(<<"x">>), ttl |-> MaxTTL],
          [args |-> <<Lst(<<Lst(<<Str(join(DIR, F_a))>>), Str(URL)>>)>>, name |-> None,
           ttl |-> DefaultTTL],
          [args |-> <<Lst(<<>>)>>, name |-> None, ttl |-> DefaultTTL],
          [args |-> <<Str(join(DIR, F_c))>>, name |-> None, ttl |-> DefaultTTL]}

\* What a file can be overwritten with, and what a new file holds.
Contents == {CfgX, CfgEmpty, CfgBad}
Overwritten == {F_a}
Created == {F_b}

\* What the caller gets back from a call, with what the call did on the way:
\* valid (the staleness validation and its reload raised nothing), changed
\* (the value of self.changed), reloaded (a reload ran and succeeded),
\* stats and accepted (see Probe), after (the time of the preceding
\* changed() call on the same catalog when no other call came between, or 0).
Call(op, n, arg, r, out) ==
    [op |-> op, node |-> n, arg |-> arg, ok |-> out.ok, err |-> out.err,
     value |-> out.value, valid |-> r.ok, changed |-> r.value, reloaded |-> r.reloaded,
     stats |-> r.stats, accepted |-> r.accepted,
     after |-> IF op = "changed" /\ prev.node = n THEN prev.t ELSE 0]

NoProbe == [ok |-> TRUE, value |-> FALSE, reloaded |-> FALSE, stats |-> {}, accepted |-> {}]
NoCall == Call("none", 0, <<>>, NoProbe, Value(<<>>))
NoPrev == [node |-> 0, t |-> 0]

\* The walk generator the caller holds: pc is "idle" (none), "run" (created
\* or suspended at a yield), "done" (exhausted) or "raised"; visited, queue,
\* catalog and sources are its frame, out the items it has yielded so far,
\* err what its body raised.
Generator(pc, start, leaves, w, out, err) ==
    [pc |-> pc, start |-> start, leaves |-> leaves, visited |-> w.visited, queue |-> w.queue,
     catalog |-> w.catalog, sources |-> w.sources, out |-> out, err |-> err]

Idle == Generator("idle", 0, FALSE, Frame({}, <<>>, 0, <<>>), <<>>, NoErr)

\* The catalogs the caller's generator keeps alive.  The caller keeps the
\* items it was yielded, and with them their catalogs; a suspended generator
\* also refers to the catalogs of its frame (visited, queue).  A generator
\* that is exhausted or has raised has given up its frame: a catalog it
\* visited without yielding it (leaves=True, no entries) is then held by
\* nothing.
Held(w) ==
    LET yielded == {IF w.leaves THEN w.out[i][1] ELSE w.out[i] : i \in DOMAIN w.out}
    IN IF w.pc = "run" THEN yielded \cup w.visited \cup Range(w.queue) ELSE yielded

\* Catalog(...) returned the new catalog, or raised.
Constructed(inp, c) ==
    /\ root = c.id
    /\ nodes = Collect(c.nds, {c.id})
    /\ ret = Call("Catalog", c.id, inp, NoProbe, [ok |-> c.ok, err |-> c.err, value |-> <<>>])

\* The part of the world the catalogs of inp observe: the server answers
\* 200 or 404 when one of them is Remote, the file system lists the names in
\* an order or its reverse when one of them is a Directory (any two names
\* come both ways); what none observes is fixed.
Answered(inp) ==
    IF \E k \in DOMAIN flatten(inp.args) : create_state(Str(flatten(inp.args)[k])) = "Remote"
    THEN {200, 404} ELSE {200}
Listed(inp) ==
    IF \E k \in DOMAIN flatten(inp.args) : create_state(Str(flatten(inp.args)[k])) = "Directory"
    THEN {<<F_a, F_b, F_c>>, <<F_c, F_b, F_a>>} ELSE {<<F_a, F_b, F_c>>}

\* The state after Catalog(*args, name=..., ttl=...) returned or raised.
Init ==
    /\ now = Epoch
    /\ files = [p \in {join(DIR, f) : f \in {F_a, F_c}} |-> [mtime |-> FileBirth, cfg |-> CfgX]]
    /\ dmtime = FileBirth
    /\ prev = NoPrev
    /\ \E inp \in Inputs :
          /\ status \in Answered(inp)
          /\ dorder \in Listed(inp)
          /\ Constructed(inp, Catalog_init(<<>>, flatten(inp.args), inp.name, inp.ttl))
    /\ wk = Idle

\* The caller has the outcome of its call.
Return ==
    /\ ret.op # "none"
    /\ ret' = NoCall
    /\ UNCHANGED <<env, nodes, root, prev, wk>>

\* The call returns (or raises) with outcome out, after the probes of c.
Returns(op, n, arg, c, out) ==
    /\ nodes' = Collect(c.nds, {root} \cup Held(wk))
    /\ ret' = Call(op, n, arg, c, out)

\* catalog.changed, on the catalog the caller holds
ChangedOutcome(n, c) ==
    Returns("changed", n, <<>>, c @@ [reloaded |-> FALSE],
            [ok |-> c.ok, err |-> c.err, value |-> c.value])

Changed(n) ==
    /\ ret.op = "none" /\ n = root /\ n \in DOMAIN nodes
    /\ ChangedOutcome(n, Catalog_changed(nodes, n))
    /\ prev' = [node |-> n, t |-> now]
    /\ UNCHANGED <<env, root, wk>>

\* catalog.reload()
ReloadOutcome(n, r) ==
    Returns("reload", n, <<>>, [NoProbe EXCEPT !.ok = r.ok, !.reloaded = r.ok] @@ [nds |-> r.nds],
            [ok |-> r.ok, err |-> r.err, value |-> <<>>])

Reload(n) ==
    /\ ret.op = "none" /\ n = root /\ n \in DOMAIN nodes
    /\ ReloadOutcome(n, Catalog_reload(nodes, n))
    /\ prev' = NoPrev
    /\ UNCHANGED <<env, root, wk>>

\* The body of read op on catalog n, run on the objects nds: its outcomes.
Body(op, n, arg, nds) ==
    CASE op = "walk" -> {Value(run) : run \in walk(nds, n, arg)}
      [] op = "get_catalogs" -> {get_catalogs(nds, run) : run \in walk(nds, n, TRUE)}
      [] op = "get_entries" -> {get_entries(nds, run) : run \in walk(nds, n, TRUE)}
      [] op = "get_catalog" -> {get_catalog(nds, run, arg) : run \in walk(nds, n, FALSE)}
      [] op = "get_entry" -> {get_entry(nds, n, arg)}
      [] op = "plugins" -> {plugins(nds, n)}

\* A wrapped read, called as op with argument arg to run the body of read
\* with argument item: the staleness validation r, then the body on what it
\* left.
ReadOutcome(op, arg, read, n, item, r) ==
    IF r.ok THEN \E out \in Body(read, n, item, r.nds) : Returns(op, n, arg, r, out)
    ELSE Returns(op, n, arg, r, Raise(r.err))

ReadAs(op, arg, read, n, item) ==
    /\ ret.op = "none" /\ n = root /\ n \in DOMAIN nodes
    /\ ReadOutcome(op, arg, read, n, item, reload_on_change(nodes, n))
    /\ prev' = NoPrev
    /\ UNCHANGED <<env, root, wk>>

Read(op, n, arg) == ReadAs(op, arg, op, n, arg)

\* list(catalog.walk(leaves)): the caller consumes the generator at once,
\* and nothing comes between two of its steps.
Walk(n, leaves) == Read("walk", n, leaves)

\* The wrapper of walk returns the generator of the body, or raises what the
\* validation raised; a generator the caller held before is dropped.
WalkGenOutcome(n, leaves, r, g) ==
    /\ wk' = g
    /\ nodes' = Collect(r.nds, {root} \cup Held(g))
    /\ ret' = Call("generator", n, leaves, r, IF r.ok THEN Value(<<>>) ELSE Raise(r.err))

\* The staleness validation is over: return f(self, leaves), which for a
\* generator function runs nothing of the body.
WalkGenValidated(n, leaves, r) ==
    WalkGenOutcome(n, leaves, r, IF r.ok THEN Generator("run", n, leaves, Frame({}, <<n>>, 0, <<>>), <<>>, NoErr)
                   ELSE Idle)

\* g = catalog.walk(leaves), kept by the caller; no generator of an earlier
\* call is running.
WalkGen(n, leaves) ==
    /\ ret.op = "none" /\ n = root /\ n \in DOMAIN nodes
    /\ wk.pc # "run"
    /\ WalkGenValidated(n, leaves, reload_on_change(nodes, n))
    /\ prev' = NoPrev
    /\ UNCHANGED <<env, root>>

\* next(g): the body runs from where it was suspended to its next yield, on
\* the objects as they are now.
WalkNext ==
    /\ ret.op = "none" /\ wk.pc = "run"
    /\ \E o \in walk_next(nodes, wk, wk.leaves) :
          wk' = Generator(CASE o.kind = "yield" -> "run"
                            [] o.kind = "stop" -> "done"
                            [] OTHER -> "raised",
                          wk.start, wk.leaves, o.w, wk.out \o o.item, o.err)
    /\ UNCHANGED <<env, nodes, root, ret, prev>>

GetCatalogs(n) == Read("get_catalogs", n, <<>>)

GetEntries(n) == Read("get_entries", n, <<>>)

GetCatalog(n, name) == Read("get_catalog", n, name)

GetEntry(n, name) == Read("get_entry", n, name)

Plugins(n) == Read("plugins", n, <<>>)

\* catalog[item] and getattr(catalog, item): get_catalog(item) if
\* self._children else get_entry(item), the test made on the children the
\* catalog caches when it is called.
GetItem(n, item) ==
    /\ n \in DOMAIN nodes
    /\ IF DOMAIN nodes[n].children # {}
       THEN ReadAs("__getitem__", item, "get_catalog", n, Some(item))
       ELSE ReadAs("__getitem__", item, "get_entry", n, item)

\* iter(catalog) and dir(catalog): get_catalogs() if self._children else
\* get_entries()
Iter(n) ==
    /\ n \in DOMAIN nodes
    /\ IF DOMAIN nodes[n].children # {}
       THEN ReadAs("__iter__", <<>>, "get_catalogs", n, <<>>)
       ELSE ReadAs("__iter__", <<>>, "get_entries", n, <<>>)

\* Names a caller asks for.
CatalogNames == {None, Some(<<"x">>), Some(<<"y">>)}
EntryNames == {E1, E2}

\* Some catalog watches path p (a file, or the directory it is in).
Watched(p) ==
    \E n \in DOMAIN nodes :
        /\ nodes[n].kind \in {"Local", "Directory"}
        /\ nodes[n].observable \in {p, DIR}

\* time passes
Tick ==
    /\ ret.op = "none" /\ root # 0
    /\ now < Epoch + MaxTime
    /\ now' = now + 1
    /\ UNCHANGED <<files, dmtime, status, dorder, nodes, root, ret, prev, wk>>

\* An existing file is overwritten.
Write(f, c) ==
    /\ ret.op = "none" /\ Watched(join(DIR, f))
    /\ join(DIR, f) \in DOMAIN files
    /\ files[join(DIR, f)] # [mtime |-> now, cfg |-> c]
    /\ files' = [files EXCEPT ![join(DIR, f)] = [mtime |-> now, cfg |-> c]]
    /\ UNCHANGED <<now, dmtime, status, dorder, nodes, root, ret, prev, wk>>

\* A file is created in the directory, which changes the directory's mtime.
Create(f) ==
    /\ ret.op = "none" /\ Watched(DIR)
    /\ join(DIR, f) \notin DOMAIN files
    /\ files' = [p \in DOMAIN files \cup {join(DIR, f)} |->
                    IF p = join(DIR, f) THEN [mtime |-> now, cfg |-> CfgY] ELSE files[p]]
    /\ dmtime' = now
    /\ UNCHANGED <<now, status, dorder, nodes, root, ret, prev, wk>>

\* The server starts or stops answering 200.
Serve(code) ==
    /\ ret.op = "none" /\ \E n \in DOMAIN nodes : nodes[n].kind = "Remote"
    /\ code # status
    /\ status' = code
    /\ UNCHANGED <<now, files, dmtime, dorder, nodes, root, ret, prev, wk>>

Next ==
    \/ Return
    \/ Changed(root)
    \/ Reload(root)
    \/ \E leaves \in BOOLEAN : Walk(root, leaves)
    \/ GetCatalogs(root)
    \/ GetEntries(root)
    \/ \E name \in CatalogNames : GetCatalog(root, name)
    \/ \E name \in EntryNames : GetEntry(root, name)
    \/ Plugins(root)
    \/ Tick
    \/ \E f \in Overwritten, c \in Contents : Write(f, c)
    \/ \E f \in Created : Create(f)
    \/ \E code \in {200, 404} : Serve(code)

Spec == Init /\ [][Next]_vars

-----------------------------------------------------------------------------
(* The walk generator in the hands of a caller, who between two next(g)    *)
(* makes other calls on the catalog while the files change.                *)

\* Catalog('/d/a.yml') over a file of two entries, or Catalog('/d', name='x').
InitGen ==
    /\ now = Epoch
    /\ files = [p \in {join(DIR, f) : f \in {F_a, F_c}} |-> [mtime |-> FileBirth, cfg |-> CfgY]]
    /\ dmtime = FileBirth
    /\ status = 200
    /\ prev = NoPrev
    /\ \E inp \in {[args |-> <<Str(join(DIR, F_a))>>, name |-> None, ttl |-> DefaultTTL],
                    [args |-> <<Str(DIR)>>, name |-> Some(<<"x">>), ttl |-> DefaultTTL]} :
          /\ dorder \in Listed(inp)
          /\ Constructed(inp, Catalog_init(<<>>, flatten(inp.args), inp.name, inp.ttl))
    /\ wk = Idle

NextGen ==
    \/ Return
    \/ Reload(root)
    \/ \E leaves \in BOOLEAN : WalkGen(root, leaves)
    \/ WalkNext
    \/ \E f \in Overwritten, c \in Contents : Write(f, c)
    \/ \E f \in Created : Create(f)

SpecGen == InitGen /\ [][NextGen]_vars

-----------------------------------------------------------------------------
(* walk over any graph of catalogs, children shared by two parents and     *)
(* cycles included: the caller sets the children of its catalogs by hand,  *)
(* calls walk on one of them and consumes the generator one next(g) at a   *)
(* time.                                                                   *)

\* Catalogs in such a graph.
WalkSize == 3

\* Catalog i of a graph: a Local catalog of /d/a.yml whose state holds what
\* a probe at Epoch stored (the mtime of the file, the time of the probe),
\* given a name of its own, entries that depend on i and the children kids.
WalkName(i) == Some([j \in 1..i |-> "c"])
WalkNode(i, kids) ==
    [State_init("Local", None, join(DIR, F_a), DefaultTTL) EXCEPT
        !.mod = FileBirth,
        !.last = Epoch,
        !.name = WalkName(i),
        !.children = [k \in {WalkName(j) : j \in kids} |-> CHOOSE j \in kids : WalkName(j) = k],
        !.entries = [n \in (IF i % 3 = 0 THEN {E1, E2} ELSE IF i % 3 = 2 THEN {E1} ELSE {}) |->
                        Entry(WalkName(i)[1], n)]]

Graphs == {g \in [(1..WalkSize) -> SUBSET (1..WalkSize)] : \A i \in (1..WalkSize) : i \notin g[i]}

\* The caller holds one catalog of a graph, and with it those it reaches.
InitWalk ==
    /\ now = Epoch
    /\ files = [p \in {join(DIR, f) : f \in {F_a, F_c}} |-> [mtime |-> FileBirth, cfg |-> CfgX]]
    /\ dmtime = FileBirth
    /\ status = 200
    /\ dorder = <<F_a, F_b, F_c>>
    /\ root \in 1..WalkSize
    /\ \E g \in Graphs : nodes = Collect([i \in (1..WalkSize) |-> WalkNode(i, g[i])], {root})
    /\ prev = NoPrev
    /\ ret = NoCall
    /\ wk = Idle

\* g = catalog.walk(leaves) through its wrapper, next(g), and the clock; the
\* file is not written, so the validation of walk finds nothing to reload.
NextWalk ==
    \/ Return
    \/ \E leaves \in BOOLEAN : WalkGen(root, leaves)
    \/ WalkNext
    \/ Tick

\* The consumer iterates the generator until it is exhausted.
SpecWalk == InitWalk /\ [][NextWalk]_vars /\ WF_vars(Return) /\ WF_vars(WalkNext)

-----------------------------------------------------------------------------
(* What the claims speak of                                                *)

Kids(nds, i) == Range(nds[i].children)

RECURSIVE Closure(_, _)
\* The catalogs reachable from the set S through children.
Closure(nds, S) ==
    LET T == S \cup UNION {Kids(nds, i) : i \in S}
    IN IF T = S THEN S ELSE Closure(nds, T)

\* The subtree of n, n included.
Subtree(nds, n) == Closure(nds, {n})

RECURSIVE Level(_, _, _, _, _)
\* The distance of x from the catalogs of frontier, which are at distance d.
Level(nds, frontier, seen, d, x) ==
    IF x \in frontier \/ frontier = {} THEN d
    ELSE Level(nds, (UNION {Kids(nds, i) : i \in frontier}) \ (seen \cup frontier),
               seen \cup frontier, d + 1, x)

Dist(nds, n, x) == Level(nds, {n}, {}, 0, x)

\* A walk(leaves=False) that has ended yielded every catalog that the start
\* reaches through children, once each, the start first, none before a
\* catalog nearer to the start.
WalkYieldsSubtree ==
    (wk.pc = "done" /\ ~wk.leaves) =>
        /\ \A i, j \in DOMAIN wk.out : i < j => wk.out[i] # wk.out[j]
        /\ Range(wk.out) = Subtree(nodes, wk.start)
        /\ wk.out[1] = wk.start
        /\ \A i, j \in DOMAIN wk.out :
              i < j => Dist(nodes, wk.start, wk.out[i]) <= Dist(nodes, wk.start, wk.out[j])

-----------------------------------------------------------------------------
(* Reload and the staleness primitive                                      *)

\* What a call step changes: a step is a call when ret.op goes from "none"
\* to the operation called, and every other step leaves it alone or resets it.
called == ret.op

\* The reads that validate the catalog before they answer.
Reads == {"walk", "get_catalogs", "get_entries", "get_catalog", "get_entry", "plugins"}

\* The snapshot catalog n caches.
Cached(nds, n) == Snapshot(nds[n].name, nds[n].children, nds[n].entries, nds[n].plugins)

\* Call r ran reload() on its catalog: it is reload(), or a read that found
\* the catalog changed.
ReloadRan(r) == r.op = "reload" \/ (r.op \in Reads /\ r.changed)
ReloadRaised(r) == ReloadRan(r) /\ ~r.reloaded

\* The error of a Remote refresh that was answered code.
InfoError(url, code) == <<"Exception", urljoin(url \o <<"/">>, S_info), code>>

\* C1: when the refresh() of a reload raises, whatever the variant of the
\* state, the caller gets the error and the catalog caches the name,
\* children, entries and plugins it cached before the call; a Remote refresh
\* answered a status other than 200 raises, with the info URL and the status.
C1_FailedReloadKeepsSnapshot ==
    [][(ret.op = "none" /\ ReloadRan(ret')) =>
          /\ ReloadRaised(ret') =>
                /\ ~ret'.ok /\ ret'.err # NoErr
                /\ Cached(nodes', root) = Cached(nodes, root)
          /\ (nodes[root].kind = "Remote" /\ status # 200) =>
                /\ ReloadRaised(ret')
                /\ ret'.err = InfoError(nodes[root].observable, status)]_called

\* A Remote catalog that had entries was reloaded while the server answered
\* 404: the call raised and the entries are still there.
C1_Witness ==
    /\ ReloadRaised(ret) /\ ~ret.ok
    /\ nodes[root].kind = "Remote" /\ status = 404
    /\ DOMAIN nodes[root].entries = RemoteSources

\* C2: update_modification_time(v) at time now: when now - last > ttl it
\* stores v and now, whether or not v is newer, and returns v > the value
\* stored before; otherwise it returns false and stores nothing.  Seen on
\* the catalog a call probes: v is the clock for a Remote state, the mtime of
\* the observable for a Local or Directory state (whose result is OR-ed with
\* its catalogs' and so not the call's).
C2_UpdateModificationTime ==
    [][(ret.op = "none" /\ ret'.op \in Reads \cup {"changed"}
        /\ nodes[root].kind \in {"Local", "Remote", "Directory"}) =>
          LET self == nodes[root]
              v == IF self.kind = "Remote" THEN now ELSE getmtime(self.observable).v
          IN IF now - self.last > self.ttl
             THEN /\ nodes'[root].mod = v /\ nodes'[root].last = now
                  /\ self.kind # "Directory" => ret'.changed = (v > self.mod)
             ELSE /\ nodes'[root].mod = self.mod /\ nodes'[root].last = self.last
                  /\ self.kind # "Directory" => ret'.changed = FALSE]_called

\* An accepted probe of a file that is not newer: the probe time is stored
\* all the same.
C2_Witness ==
    /\ ret.op = "changed" /\ ret.ok /\ ~ret.value
    /\ nodes[root].kind = "Local" /\ root \in ret.accepted
    /\ nodes[root].last = now /\ nodes[root].mod < now

-----------------------------------------------------------------------------
(* The TTL window                                                          *)

RECURSIVE Consulted(_, _)
\* The catalogs whose changed a changed() of the catalogs in S evaluates: S
\* and, through self.catalogs, the catalogs of their states.
Consulted(nds, S) ==
    LET T == S \cup UNION {Range(nds[i].catalogs) : i \in S}
    IN IF T = S THEN S ELSE Consulted(nds, T)

\* The catalogs among them whose state keeps a probe time of its own.
Probing(nds, n) == {i \in Consulted(nds, {n}) : nds[i].kind # "Collection"}

\* Catalog i is within its TTL window: no more than its ttl has passed since
\* its last accepted probe.
InWindow(nds, i) == now - nds[i].last <= nds[i].ttl

\* C3 (as stated): of two changed() calls on a catalog with ttl t > 0, less
\* than t apart and with no other call between them, the second returns false.
C3_SecondCallFalse ==
    (/\ ret.op = "changed" /\ ret.after # 0
     /\ nodes[root].ttl > 0 /\ now - ret.after < nodes[root].ttl) => ret.value = FALSE

\* C3 (amended): changed() returns false when the catalog and every catalog
\* its state consults are within their own TTL windows, counted from their
\* own last accepted probes.
C3_FalseWithinEveryWindow ==
    [][(/\ ret.op = "none" /\ ret'.op = "changed"
        /\ \A i \in Probing(nodes, root) : InWindow(nodes, i)) =>
          ret'.value = FALSE]_called

\* The second of two changed() calls on a directory, made later than the
\* first: no probe is accepted, of the directory or of a catalog in it, and
\* the call returns false though a file in the directory was written between.
C3_Witness ==
    /\ ret.op = "changed" /\ ret.after # 0 /\ now > ret.after
    /\ nodes[root].kind = "Directory" /\ nodes[root].catalogs # <<>>
    /\ ret.stats # {} /\ ret.accepted = {} /\ ret.value = FALSE
    /\ \E p \in DOMAIN files : files[p].mtime > ret.after

\* C4 (as stated): changed() stats the observable only of the catalogs whose
\* probe it accepts; a check within the window does no I/O.
C4_StatOnlyWhenAccepted ==
    ret.op = "changed" => ret.stats \subseteq ret.accepted

\* C6 (as stated): a read refreshes the catalog only when more than the
\* catalog's ttl has passed since its last accepted probe.
C6_RefreshOnlyAfterTTL ==
    [][(ret.op = "none" /\ ret'.op \in Reads /\ ret'.changed) =>
          now - nodes[root].last > nodes[root].ttl]_called

-----------------------------------------------------------------------------
(* Reads                                                                   *)

RECURSIVE Fresh(_, _)
\* Catalog i caches what a refresh of its state yields from the files and
\* the server as they are now.
Fresh(nds, i) ==
    LET self == nds[i]
        members == self.catalogs
    IN CASE self.kind = "Local" ->
               /\ CatalogConfig(self.observable).ok
               /\ self.name = CatalogConfig(self.observable).name
               /\ self.entries = CatalogConfig(self.observable).entries
               /\ self.plugins = CatalogConfig(self.observable).plugins
         [] self.kind = "Remote" ->
               status = 200 /\ DOMAIN self.entries = RemoteSources
         [] self.kind = "Directory" ->
               /\ Len(members) = Len(Selected(self.observable))
               /\ \A k \in DOMAIN members :
                     nds[members[k]].observable = Selected(self.observable)[k]
                     /\ Fresh(nds, members[k])
               /\ DOMAIN self.children = {nds[members[k]].name : k \in DOMAIN members}
         [] self.kind = "Collection" ->
               /\ \A k \in DOMAIN members : Fresh(nds, members[k])
               /\ DOMAIN self.children = {nds[members[k]].name : k \in DOMAIN members}

\* The answer of read r is the one the objects nds give.
Answers(nds, n, r) ==
    CASE r.op = "walk" ->
            IF r.arg
            THEN Range(r.value) =
                    UNION {{<<c, e, nds[c].entries[e]>> : e \in DOMAIN nds[c].entries} :
                              c \in Subtree(nds, n)}
            ELSE Range(r.value) = Subtree(nds, n)
      [] r.op = "get_catalogs" ->
            r.value = {nm \in {nds[c].name : c \in {d \in Subtree(nds, n) :
                                                       DOMAIN nds[d].entries # {}}} :
                          Truthy(nm)}
      [] r.op = "get_entries" ->
            r.value = UNION {DOMAIN nds[c].entries : c \in Subtree(nds, n)}
      [] r.op = "get_catalog" ->
            r.value \in Subtree(nds, n) /\ nds[r.value].name = r.arg
      [] r.op = "get_entry" ->
            r.arg \in DOMAIN nds[n].entries /\ r.value = nds[n].entries[r.arg]
      [] r.op = "plugins" ->
            r.value = nds[n].plugins

\* C5: each read (walk, get_catalogs, get_entries, get_catalog, get_entry,
\* plugins) evaluates changed first; when it is true the reload is complete
\* before anything is answered (or its error is the outcome of the read), and
\* the answer is the one the snapshot gives after that reload.
C5_ReadsValidateFirst ==
    ret.op \in Reads =>
        /\ ret.changed => (ret.reloaded \/ ~ret.ok)
        /\ ret.reloaded => (ret.changed /\ Fresh(nodes, root))
        /\ ret.ok => Answers(nodes, root, ret)

\* plugins was read after the file of a Local catalog was overwritten with
\* one that names no plugin: the read reloaded and answers the new list.
C5_Witness ==
    /\ ret.op = "plugins" /\ ret.ok /\ ret.changed /\ ret.reloaded
    /\ nodes[root].kind = "Local" /\ ret.value = <<>>
    /\ files[nodes[root].observable].cfg = CfgEmpty

\* C8 (as stated): get_catalogs() returns the non-empty names of all the
\* catalogs walk(leaves=False) visits, with or without entries.
C8_AllCatalogNames ==
    (ret.op = "get_catalogs" /\ ret.valid) =>
        /\ ret.ok
        /\ ret.value = {nm \in {nodes[c].name : c \in Subtree(nodes, root)} : Truthy(nm)}

\* C9 (as stated): get_entries() returns the entry names of the subtree, each
\* once, and the empty listing when the subtree has no entry.
C9_AllEntryNames ==
    (ret.op = "get_entries" /\ ret.valid) =>
        /\ ret.ok
        /\ ret.value = UNION {DOMAIN nodes[c].entries : c \in Subtree(nodes, root)}

\* The catalogs of the subtree of n that are named name.
Named(nds, n, name) == {c \in Subtree(nds, n) : nds[c].name = name}

\* C10: get_catalog(name) returns a catalog of the subtree (the catalog
\* itself included) that is named name, none of that name being nearer, and
\* raises KeyError(name) exactly when the subtree has no catalog of that name.
C10_GetCatalogFirstMatch ==
    (ret.op = "get_catalog" /\ ret.valid) =>
        IF Named(nodes, root, ret.arg) = {}
        THEN ~ret.ok /\ ret.err = <<"KeyError", ret.arg>>
        ELSE /\ ret.ok /\ ret.value \in Named(nodes, root, ret.arg)
             /\ \A c \in Named(nodes, root, ret.arg) :
                   Dist(nodes, root, ret.value) <= Dist(nodes, root, c)

\* A directory and a catalog in it have the name asked for: the directory,
\* which is nearer, is returned.
C10_Witness ==
    /\ ret.op = "get_catalog" /\ ret.ok /\ ret.value = root
    /\ Cardinality(Named(nodes, root, ret.arg)) > 1

-----------------------------------------------------------------------------
(* Lookup, classification and the states' snapshots                        *)

\* C11: get_entry(name) returns the entry under name in the catalog's own
\* entries as they are after the validation, and raises KeyError(name)
\* exactly when there is none, also when a catalog below holds that name.
C11_GetEntryOwnEntries ==
    (ret.op = "get_entry" /\ ret.valid) =>
        IF ret.arg \in DOMAIN nodes[root].entries
        THEN ret.ok /\ ret.value = nodes[root].entries[ret.arg]
        ELSE ~ret.ok /\ ret.err = <<"KeyError", ret.arg>>

\* A name that a catalog in the directory holds is not found on the
\* directory itself.
C11_Witness ==
    /\ ret.op = "get_entry" /\ ret.valid /\ ~ret.ok
    /\ ret.arg \notin DOMAIN nodes[root].entries
    /\ \E c \in Subtree(nodes, root) : ret.arg \in DOMAIN nodes[c].entries

-----------------------------------------------------------------------------
(* Catalog(...) over observables of every shape                            *)

\* Strings a caller may pass: a scheme or none, a path, a suffix or none.
Schemes == {<<>>, S_http, S_https}
Stems == {DIR, <<"/", "e">>, DIR \o <<"/", "a">>}
Suffixes == {<<>>, S_yml, S_yaml, <<".", "t", "x", "t">>}
\* URLs with a query, a tab in the host, a bracket that is never closed, an
\* IPv6 host that ends in an IPv4 address, a bracketed IPv4 host, a host with
\* a fullwidth solidus.
Strings ==
    {a \o b \o c : a \in Schemes, b \in Stems, c \in Suffixes}
    \cup {S_http \o h : h \in {<<"h", "?", "x">>, <<"h", "\t", "o">>, <<"[", "x">>,
                                <<"[", ":", ":", "1", ".", "2", ".", "3", ".", "4", "]">>,
                                <<"[", "1", ".", "2", ".", "3", ".", "4", "]">>,
                                <<"h", "U+FF0F", "o">>}}

\* Lists a caller may pass: empty, of one string, of two.
Lists ==
    {Lst(<<>>), Lst(<<Str(DIR)>>), Lst(<<Str(DIR_yml)>>),
     Lst(<<Str(URL), Str(join(DIR, F_a))>>), Lst(<<Str(DIR), Str(join(DIR, F_c))>>),
     Lst(<<Str(URL), Str(DIR)>>), Lst(<<Str(DIR), Str(DIR_yml)>>)}

ClassifyInputs ==
    {[args |-> <<o>>, name |-> n, ttl |-> DefaultTTL] :
        o \in {Str(x) : x \in Strings} \cup Lists, n \in {None, Some(<<"x">>)}}

\* Nothing is constructed yet.
InitClassify ==
    /\ now = Epoch
    /\ files = [p \in {join(DIR, f) : f \in {F_a, F_c}} |-> [mtime |-> FileBirth, cfg |-> CfgX]]
    /\ dmtime = FileBirth
    /\ status \in {200, 404}
    /\ dorder \in Perms(Names)
    /\ nodes = <<>>
    /\ root = 0
    /\ prev = NoPrev
    /\ ret = NoCall
    /\ wk = Idle

\* Catalog(*args, name=..., ttl=...) returned the new catalog, or raised.
ConstructOutcome(inp, c) ==
    /\ root' = c.id
    /\ nodes' = Collect(c.nds, {c.id})
    /\ ret' = Call("Catalog", c.id, inp, NoProbe, [ok |-> c.ok, err |-> c.err, value |-> <<>>])

Construct(inp) ==
    /\ ret.op = "none" /\ root = 0
    /\ ConstructOutcome(inp, Catalog_init(<<>>, flatten(inp.args), inp.name, inp.ttl))
    /\ UNCHANGED <<env, prev, wk>>

\* The caller drops what it got.
Drop ==
    /\ ret.op = "Catalog"
    /\ ret' = NoCall /\ root' = 0 /\ nodes' = <<>>
    /\ UNCHANGED <<env, prev, wk>>

NextClassify ==
    \/ \E inp \in ClassifyInputs : Construct(inp)
    \/ Drop

SpecClassify == InitClassify /\ [][NextClassify]_vars

\* What create_state is given for the call's arguments.
Given(inp) == Observable(flatten(inp.args))

\* Some rule matches the string x.
Supported(x) ==
    \/ startswith(x, S_http) \/ startswith(x, S_https)
    \/ x \in Dirs
    \/ endswith(x, S_yml) \/ endswith(x, S_yaml)

\* C12: create_state takes the first rule that matches: a list is a
\* Collection; a string that starts with http:// or https:// is Remote, also
\* when a directory has that name (and the construction raises ValueError
\* exactly when the URL does not parse); an existing directory is a Directory,
\* also when its path ends in .yml or .yaml; a path with such an ending is
\* Local; for anything else TypeError is raised and no catalog is there.
C12_FirstRuleWins ==
    ret.op = "Catalog" =>
        LET o == Given(ret.arg)
            kind == IF ret.ok THEN nodes[root].kind ELSE ret.err[1]
        IN /\ ~ret.ok => (root = 0 /\ nodes = <<>>)
           /\ o.list =>
                 /\ ret.ok => kind = "Collection"
                 /\ kind = "TypeError" => \E k \in DOMAIN o.v : ~Supported(o.v[k])
           /\ ~o.list =>
                 CASE startswith(o.v, S_http) \/ startswith(o.v, S_https) ->
                         /\ kind \in {"Remote", "Exception", "ValueError"}
                         /\ (kind = "ValueError") = ~RemoteState_init(o.v)
                   [] OTHER ->
                         CASE o.v \in Dirs ->
                                 /\ kind \in {"Directory", "IOError", "ParseError"}
                                 /\ ~ret.ok => Selected(o.v) # <<>>
                           [] OTHER ->
                                 CASE endswith(o.v, S_yml) \/ endswith(o.v, S_yaml) ->
                                         kind \in {"Local", "IOError", "ParseError"}
                                   [] OTHER -> kind = "TypeError"

\* A directory whose path ends in .yml was given: the catalog is a Directory.
C12_Witness ==
    /\ ret.op = "Catalog" /\ ret.ok /\ nodes[root].kind = "Directory"
    /\ endswith(nodes[root].observable, S_yml)

\* The call that just returned refreshed the caller's catalog with success:
\* the construction, reload(), or a read that found it changed.
JustRefreshed == (ret.op = "Catalog" /\ ret.ok) \/ (ret.op # "none" /\ ret.reloaded)

\* C13 (as stated): after a successful refresh of a Directory catalog its
\* children hold exactly one catalog for each file of the directory that
\* ends in .yml or .yaml, under that catalog's name, and none for another
\* file; it has no entries and no plugins.
C13_OneChildPerFile ==
    (JustRefreshed /\ nodes[root].kind = "Directory") =>
        LET self == nodes[root]
            selected == Selected(self.observable)
        IN /\ Cardinality(DOMAIN self.children) = Len(selected)
           /\ \A k \in DOMAIN selected :
                 \E nm \in DOMAIN self.children :
                    /\ nodes[self.children[nm]].observable = selected[k]
                    /\ nodes[self.children[nm]].name = nm
           /\ \A nm \in DOMAIN self.children :
                 nodes[self.children[nm]].observable \in Range(selected)
           /\ DOMAIN self.entries = {} /\ self.plugins = <<>>

\* What the probe of Local or Remote catalog i reads: the file's mtime, the clock.
Probes(nds, i) ==
    IF nds[i].kind = "Remote" THEN now ELSE getmtime(nds[i].observable).v

\* The changed of Local or Remote catalog i, by the staleness primitive.
Newer(nds, i) == ~InWindow(nds, i) /\ Probes(nds, i) > nds[i].mod

\* C14: changed() of a Collection is the OR of the changed of its member
\* catalogs, every one of them probed at each call (so false without
\* members); the ttl and the bookkeeping of the collection's own state take
\* no part and are left alone.
C14_CollectionChangedIsAny ==
    [][(ret.op = "none" /\ ret'.op = "changed" /\ nodes[root].kind = "Collection") =>
          LET members == Range(nodes[root].catalogs)
          IN /\ ret'.ok
             /\ ret'.value = (\E m \in members : Newer(nodes, m))
             /\ ret'.accepted = {m \in members : ~InWindow(nodes, m)}
             /\ ret'.stats = {m \in members : nodes[m].kind = "Local"}
             /\ nodes'[root].mod = nodes[root].mod
             /\ nodes'[root].last = nodes[root].last]_called

\* Both members were probed again, ttl after an earlier call: the file was
\* never written, so its catalog is unchanged; the Remote one is changed, and
\* so is the collection.
C14_Witness ==
    /\ ret.op = "changed" /\ nodes[root].kind = "Collection"
    /\ Len(nodes[root].catalogs) = 2
    /\ ret.after # 0 /\ ret.accepted = Range(nodes[root].catalogs)
    /\ \A p \in DOMAIN files : files[p].mtime = FileBirth
    /\ ret.value = TRUE

\* C15 (as stated): after its construction and after every successful
\* refresh, a Collection catalog built from n observables has n children,
\* one for each member and under that member's name, no name of its own, no
\* entries and no plugins.
C15_OneChildPerMember ==
    (JustRefreshed /\ nodes[root].kind = "Collection") =>
        LET self == nodes[root]
        IN /\ Len(self.catalogs) = Len(self.observable)
           /\ Cardinality(DOMAIN self.children) = Len(self.observable)
           /\ \A k \in DOMAIN self.catalogs :
                 \E nm \in DOMAIN self.children :
                    self.children[nm] = self.catalogs[k] /\ nodes[self.catalogs[k]].name = nm
           /\ self.name = None
           /\ DOMAIN self.entries = {} /\ self.plugins = <<>>

-----------------------------------------------------------------------------
(* The objects a refresh leaves                                            *)

\* The call refreshed the caller's catalog with success.
RefreshedBy(r) == r.op # "none" /\ r.reloaded

\* C16 (as stated): a refresh of a Directory or Collection catalog puts newly
\* created catalogs in the children, and changes no catalog that was there
\* before.
C16_ChildrenReplacedWholesale ==
    [][(ret.op = "none" /\ RefreshedBy(ret')
        /\ nodes[root].kind \in {"Directory", "Collection"}) =>
          /\ Range(nodes'[root].children) \cap DOMAIN nodes = {}
          /\ \A i \in (DOMAIN nodes \cap DOMAIN nodes') \ {root} : nodes'[i] = nodes[i]]_called

\* C16 (amended): a refresh of a Directory catalog puts newly created
\* catalogs in its children and its state, and changes no catalog that was
\* there before; a refresh of a Collection catalog keeps the member catalogs
\* it was constructed with, reloaded in place, and its children are among them.
C16_DirectoryReplacesCollectionKeeps ==
    [][(ret.op = "none" /\ RefreshedBy(ret')) =>
          CASE nodes[root].kind = "Directory" ->
                  /\ Range(nodes'[root].children) \cap DOMAIN nodes = {}
                  /\ Range(nodes'[root].catalogs) \cap DOMAIN nodes = {}
                  /\ \A i \in (DOMAIN nodes \cap DOMAIN nodes') \ {root} :
                        nodes'[i] = nodes[i]
            [] nodes[root].kind = "Collection" ->
                  /\ nodes'[root].catalogs = nodes[root].catalogs
                  /\ Range(nodes'[root].children) \subseteq Range(nodes[root].catalogs)
            [] OTHER -> TRUE]_called

\* A directory was refreshed: the catalog it was constructed with (the
\* second object) is gone, another one is its child.
C16_Witness ==
    /\ RefreshedBy(ret) /\ nodes[root].kind = "Directory"
    /\ nodes[root].children # <<>> /\ 2 \notin DOMAIN nodes

-----------------------------------------------------------------------------
(* Name-based dispatch, on a directory that is empty at first              *)

\* What a caller looks up by name.
Items == {<<"x">>, <<"y">>, E1}

\* Catalog('/d', ttl=...) over a directory that holds c.txt only, or a.yml too.
InitDispatch ==
    /\ now = Epoch
    /\ \E fs \in {{F_c}, {F_a, F_c}} :
          files = [p \in {join(DIR, f) : f \in fs} |-> [mtime |-> FileBirth, cfg |-> CfgX]]
    /\ dmtime = FileBirth
    /\ status = 200
    /\ dorder \in Perms(Names)
    /\ prev = NoPrev
    /\ \E t \in TTLs :
          Constructed([args |-> <<Str(DIR)>>, name |-> None, ttl |-> t],
                      Catalog_init(<<>>, <<DIR>>, None, t))
    /\ wk = Idle

NextDispatch ==
    \/ Return
    \/ \E item \in Items : GetItem(root, item)
    \/ Iter(root)
    \/ Tick
    \/ \E f \in {F_a, F_b} : Create(f)

SpecDispatch == InitDispatch /\ [][NextDispatch]_vars

\* C17 (as stated): when the catalog, after the validation the lookup
\* makes, has a child named X, catalog[X] returns that child and does not
\* look in the entries.
C17_DispatchOnCurrentChildren ==
    (/\ ret.op = "__getitem__" /\ ret.valid
     /\ Some(ret.arg) \in DOMAIN nodes[root].children) =>
        ret.ok /\ ret.value = nodes[root].children[Some(ret.arg)]

-----------------------------------------------------------------------------
(* Remote and Local catalogs over time                                     *)

\* The call asked the server for its info: the reload went through, or
\* raised the error of a refused request.
Requested(r) == r.reloaded \/ (~r.ok /\ r.err[1] = "Exception")

\* C18: of a Remote catalog every accepted probe is a change, the clock
\* having advanced: changed is true exactly when more than ttl has passed
\* since the last accepted probe, and exactly then a read asks the server
\* for its info again.
C18_RemoteChangedIffElapsed ==
    [][(/\ ret.op = "none" /\ ret'.op \in Reads \cup {"changed"}
        /\ nodes[root].kind = "Remote") =>
          /\ ret'.changed = (now - nodes[root].last > nodes[root].ttl)
          /\ ret'.op \in Reads => (Requested(ret') = ret'.changed)]_called

\* The second accepted probe of a Remote catalog, more than ttl after the
\* first: changed is true again.
C18_Witness ==
    /\ ret.op = "changed" /\ nodes[root].kind = "Remote"
    /\ ret.after # 0 /\ now - ret.after > nodes[root].ttl
    /\ ret.value = TRUE

\* C19: the probe uses the change up, not the reload.  A read of a Local
\* catalog that found it changed and whose reload raised has stored the
\* file's mtime all the same; and while the stored value is the file's
\* mtime, a read does not try to refresh: it raises nothing in its
\* validation and answers from the snapshot the catalog had, though the file
\* holds something else.
C19_ProbeConsumesChange ==
    [][(ret.op = "none" /\ ret'.op \in Reads /\ nodes[root].kind = "Local") =>
          /\ ReloadRaised(ret') =>
                /\ ~ret'.ok
                /\ nodes'[root].mod = getmtime(nodes[root].observable).v
          /\ nodes[root].mod = getmtime(nodes[root].observable).v =>
                /\ ~ret'.changed /\ ret'.valid /\ ~ret'.reloaded
                /\ Cached(nodes', root) = Cached(nodes, root)
                /\ ret'.ok => Answers(nodes, root, ret')]_called

\* The file does not parse any more, a read has raised on it before (the
\* stored value is the file's mtime), and now a read, its probe accepted,
\* finds nothing changed and answers the entry the catalog still caches.
C19_Witness ==
    /\ ret.op = "get_entry" /\ ret.ok /\ ~ret.changed /\ root \in ret.accepted
    /\ nodes[root].kind = "Local"
    /\ ~files[nodes[root].observable].cfg.ok
    /\ nodes[root].mod = files[nodes[root].observable].mtime

\* C20 (as stated): when the reload of a member raises during the refresh
\* of a Collection catalog, every member caches what it cached before the
\* refresh, the members reloaded before the failure included, and the keys
\* of the collection's children are the names its members have.
C20_CollectionRefreshAllOrNothing ==
    [][(ret.op = "none" /\ ReloadRaised(ret') /\ nodes[root].kind = "Collection") =>
          LET members == Range(nodes[root].catalogs)
          IN /\ \A m \in members : Cached(nodes', m) = Cached(nodes, m)
             /\ DOMAIN nodes'[root].children = {nodes'[m].name : m \in members}]_called

====
